---- MODULE Spec2Model ----
(***************************************************************************)
(* Model of kube-rs src/config/kube_config.rs: KubeConfigLoader::load      *)
(* (context / cluster / user resolution with optional overrides and the    *)
(* credential materializer) and the two TLS builders, identity and         *)
(* ca_bundle, in both feature builds (openssl and rustls-tls).             *)
(***************************************************************************)
EXTENDS Integers, Sequences, FiniteSets, TLC

VARIABLES
    config,        \* the file at `path`: the Configuration Config::load_config parses
                   \* from it, or Unreadable
    args,          \* the arguments of the call of load: context, cluster, user, and the
                   \* outcome of the auth provider's fetch during that call
    pc,            \* "idle" before load is called, "returned" after, "rewritten" once
                   \* the configuration behind `path` has been changed afterwards
    result,        \* what load returned: Ok(KubeConfigLoader) or Err(error)
    calls,         \* the collaborator calls load made, in order
    feature,       \* the TLS build: "openssl" (default) or "rustls-tls"
    loader,        \* the KubeConfigLoader held by the caller
    identity_out,  \* the outcomes of the identity() calls made on loader, in order
    ca_out         \* the outcomes of the ca_bundle() calls made on loader, in order

vars == <<config, args, pc, result, calls, feature, loader, identity_out, ca_out>>

(***************************************************************************)
(* Bounds.                                                                 *)
(***************************************************************************)
\* records of a Configuration, over its three collections together
MaxRecords == 4
\* PEM blocks in a certificate-authority bundle
MaxCerts == 2
\* calls of identity, and of ca_bundle, on one loader
MaxCalls == 2

(***************************************************************************)
(* Option and Result.                                                      *)
(***************************************************************************)
None == [some |-> FALSE]
Some(v) == [some |-> TRUE, val |-> v]
Ok(v) == [ok |-> TRUE, val |-> v]
Err(e) == [ok |-> FALSE, err |-> e]

\* Option::unwrap_or, mutated: the override is ignored
unwrap_or_default(opt, dflt) == dflt

\* Option::unwrap_or
unwrap_or(opt, dflt) == IF opt.some THEN opt.val ELSE dflt

(***************************************************************************)
(* The data model: names, records and named collections.                   *)
(***************************************************************************)
\* two names that differ only in case
Names == {"dev", "DEV"}

Lower(n) == IF n = "DEV" THEN "dev" ELSE n

\* data-or-file fields: "" is "neither data nor file configured"
NoData == ""

\* certificate-authority field of a Cluster: absent
NoCa == [st |-> "absent", pem |-> <<>>]

\* Context: a cluster reference and a user reference. The two references of a
\* context carry the same name; clusters and auth_infos are separate
\* collections, so each reference is found or dangles independently
Contexts == {[cluster |-> n, user |-> n] : n \in Names}

\* AuthInfo with static credentials, and one backed by an auth provider
StaticUser == [client_certificate |-> "crt1", client_key |-> "key1", auth_provider |-> FALSE]
ProviderUser == [client_certificate |-> NoData, client_key |-> NoData, auth_provider |-> TRUE]

\* the i-th cluster of a configuration: its endpoint is told apart by i
ClusterAt(i) == [server |-> i, certificate_authority |-> NoCa]

NamedContexts == [name : Names, context : Contexts]
NamedAuthInfos == [name : Names, auth_info : {StaticUser, ProviderUser}]

ClusterLists(k) ==
    {[i \in 1..k |-> [name |-> ns[i], cluster |-> ClusterAt(i)]] : ns \in [1..k -> Names]}

Shapes ==
    {s \in (0..MaxRecords) \X (0..MaxRecords) \X (0..MaxRecords) :
        s[1] + s[2] + s[3] <= MaxRecords}

\* the Configurations of at most MaxRecords records
Configs ==
    UNION {[valid : {TRUE},
            current_context : Names,
            contexts : [1..s[1] -> NamedContexts],
            clusters : ClusterLists(s[2]),
            auth_infos : [1..s[3] -> NamedAuthInfos]] : s \in Shapes}

\* a file at `path` that Config::load_config cannot read or parse
Unreadable ==
    [valid |-> FALSE, current_context |-> "", contexts |-> <<>>,
     clusters |-> <<>>, auth_infos |-> <<>>]

(***************************************************************************)
(* Errors.                                                                 *)
(***************************************************************************)
KubeConfig(msg) == [kind |-> "KubeConfig", msg |-> msg]
SslError == [kind |-> "SslError", msg |-> ""]
\* the failure of Config::load_config and of AuthInfo::load_gcp
ConfigLoadError == [kind |-> "KubeConfig", msg |-> "Unable to load config file"]
GcpError == [kind |-> "KubeConfig", msg |-> "Unable to load gcp credentials"]

(***************************************************************************)
(* KubeConfigLoader::load.                                                 *)
(***************************************************************************)
RECURSIVE FindLast(_, _)
\* iter().find, mutated: the last match wins
FindLast(coll, name) ==
    IF coll = <<>> THEN None
    ELSE IF coll[Len(coll)].name = name THEN Some(coll[Len(coll)])
    ELSE FindLast(SubSeq(coll, 1, Len(coll) - 1), name)

RECURSIVE Find(_, _)
\* iter().find(|named| &named.name == name): linear scan, first match
Find(coll, name) ==
    IF coll = <<>> THEN None
    ELSE IF Head(coll).name = name THEN Some(Head(coll))
    ELSE Find(Tail(coll), name)

\* Config::load_config(path): the parsed Configuration, or the parser's error
load_config(file) == IF file.valid THEN Ok(file) ELSE Err(ConfigLoadError)

\* AuthInfo::load_gcp(&mut self): a no-op for static credentials; for an auth
\* provider the external fetch populates the credential fields in place, and a
\* failed fetch leaves the AuthInfo partially loaded
load_gcp(user, gcp) ==
    IF ~user.auth_provider THEN [res |-> Ok("unit"), user |-> user]
    ELSE IF gcp = "ok"
    THEN [res |-> Ok("unit"),
          user |-> [user EXCEPT !.client_certificate = "gcp-crt", !.client_key = "gcp-key"]]
    ELSE [res |-> Err(GcpError),
          user |-> [user EXCEPT !.client_certificate = "gcp-crt"]]

\* lines 34-40: the context named by the override, else by config.current_context
ResolveContext(cfg, context) ==
    LET context_name == unwrap_or(context, cfg.current_context)
        found == Find(cfg.contexts, context_name)
    IN  [res |-> IF found.some THEN Ok(found.val.context)
                 ELSE Err(KubeConfig("Unable to load current context")),
         calls |-> <<"find_context">>]

\* lines 41-47, mutated: a missing cluster is reported with the user's message
ResolveClusterMislabelled(cfg, current_context, cluster) ==
    LET cluster_name == unwrap_or(cluster, current_context.cluster)
        found == Find(cfg.clusters, cluster_name)
    IN  [res |-> IF found.some THEN Ok(found.val.cluster)
                 ELSE Err(KubeConfig("Unable to load user of context")),
         calls |-> <<"find_cluster">>]

\* lines 41-47, mutated: a missing cluster falls back to the first cluster
ResolveClusterLenient(cfg, current_context, cluster) ==
    LET cluster_name == unwrap_or(cluster, current_context.cluster)
        found == Find(cfg.clusters, cluster_name)
    IN  [res |-> IF found.some THEN Ok(found.val.cluster)
                 ELSE IF cfg.clusters # <<>> THEN Ok(cfg.clusters[1].cluster)
                 ELSE Err(KubeConfig("Unable to load cluster of context")),
         calls |-> <<"find_cluster">>]

\* lines 41-47: the cluster named by the override, else by the context
ResolveCluster(cfg, current_context, cluster) ==
    LET cluster_name == unwrap_or(cluster, current_context.cluster)
        found == Find(cfg.clusters, cluster_name)
    IN  [res |-> IF found.some THEN Ok(found.val.cluster)
                 ELSE Err(KubeConfig("Unable to load cluster of context")),
         calls |-> <<"find_cluster">>]

\* lines 53-59, mutated: the AuthInfo returned is the one cloned before load_gcp ran
MaterializeStale(named_user, gcp) ==
    LET user == named_user.auth_info
        out == load_gcp(user, gcp)
    IN  IF out.res.ok THEN Ok(user) ELSE Err(out.res.err)

\* lines 53-59, mutated: the materializer's failure is swallowed
MaterializeSwallow(named_user, gcp) ==
    LET user == named_user.auth_info
        out == load_gcp(user, gcp)
    IN  Ok(out.user)

\* lines 53-59: clone the matched AuthInfo, run load_gcp on the clone
Materialize(named_user, gcp) ==
    LET user == named_user.auth_info
        out == load_gcp(user, gcp)
    IN  IF out.res.ok THEN Ok(out.user) ELSE Err(out.res.err)

\* lines 48-60, mutated: the materializer runs on the first AuthInfo before the lookup
ResolveUserEager(cfg, current_context, user, gcp) ==
    LET user_name == unwrap_or(user, current_context.user)
        found == Find(cfg.auth_infos, user_name)
    IN  [res |-> IF found.some THEN Materialize(found.val, gcp)
                 ELSE Err(KubeConfig("Unable to load user of context")),
         calls |-> <<"load_gcp", "find_user">>]

\* lines 48-60: the user named by the override, else by the context, materialized
ResolveUser(cfg, current_context, user, gcp) ==
    LET user_name == unwrap_or(user, current_context.user)
        found == Find(cfg.auth_infos, user_name)
    IN  [res |-> IF found.some THEN Materialize(found.val, gcp)
                 ELSE Err(KubeConfig("Unable to load user of context")),
         calls |-> IF found.some THEN <<"find_user", "load_gcp">> ELSE <<"find_user">>]

\* lines 33-66: what load returns and the collaborator calls it makes
load(file, a) ==
    LET c0 == load_config(file) IN
    IF ~c0.ok THEN [res |-> Err(c0.err), calls |-> <<"load_config">>] ELSE
    LET cc == ResolveContext(c0.val, a.context)
        k1 == <<"load_config">> \o cc.calls IN
    IF ~cc.res.ok THEN [res |-> Err(cc.res.err), calls |-> k1] ELSE
    LET cl == ResolveCluster(c0.val, cc.res.val, a.cluster)
        k2 == k1 \o cl.calls IN
    IF ~cl.res.ok THEN [res |-> Err(cl.res.err), calls |-> k2] ELSE
    LET us == ResolveUser(c0.val, cc.res.val, a.user, a.gcp)
        k3 == k2 \o us.calls IN
    IF ~us.res.ok THEN [res |-> Err(us.res.err), calls |-> k3] ELSE
    [res |-> Ok([current_context |-> cc.res.val,
                 cluster |-> cl.res.val,
                 user |-> us.res.val]),
     calls |-> k3]

\* the caller's binding before load has returned a loader
NoLoader ==
    [current_context |-> [cluster |-> "", user |-> ""],
     cluster |-> [server |-> 0, certificate_authority |-> NoCa],
     user |-> [client_certificate |-> NoData, client_key |-> NoData, auth_provider |-> FALSE]]

Overrides == {None} \cup {Some(n) : n \in Names}

\* the arguments of load, and the outcome of the auth provider's fetch
Args == [context : Overrides, cluster : Overrides, user : Overrides, gcp : {"ok", "fail"}]

NoArgs == [context |-> None, cluster |-> None, user |-> None, gcp |-> "ok"]

NotCalled == Err(KubeConfig("not called"))

Init ==
    /\ config \in Configs \cup {Unreadable}
    /\ args = NoArgs
    /\ pc = "idle"
    /\ result = NotCalled
    /\ calls = <<>>
    /\ feature = "openssl"
    /\ loader = NoLoader
    /\ identity_out = <<>>
    /\ ca_out = <<>>

\* a call of KubeConfigLoader::load(path, context, cluster, user)
Load ==
    /\ pc = "idle"
    /\ \E a \in Args :
        LET out == load(config, a) IN
        /\ args' = a
        /\ result' = out.res
        /\ calls' = out.calls
        /\ loader' = IF out.res.ok THEN out.res.val ELSE loader
    /\ pc' = "returned"
    /\ UNCHANGED <<config, feature, identity_out, ca_out>>

\* the configuration behind `path` is changed after load has returned a loader:
\* one of its collections is emptied
Rewrite ==
    /\ pc = "returned"
    /\ result.ok
    /\ \E f \in {"contexts", "clusters", "auth_infos"} :
        /\ config[f] # <<>>
        /\ config' = [config EXCEPT ![f] = <<>>]
    /\ pc' = "rewritten"
    /\ UNCHANGED <<args, result, calls, feature, loader, identity_out, ca_out>>

Next == Load \/ Rewrite

Spec == Init /\ [][Next]_vars

(***************************************************************************)
(* The TLS builders: identity and ca_bundle.                               *)
(***************************************************************************)
\* PEM blocks of a bundle: two certificates, a block that does not parse, and
\* a certificate that parses but cannot be re-encoded
PemBlocks == {"x1", "x2", "badpem", "badder"}

Features == {"openssl", "rustls-tls"}

\* AuthInfo::load_client_certificate: the bytes of the data-or-file field
load_client_certificate(user) ==
    IF user.client_certificate = NoData
    THEN Err(KubeConfig("Failed to get data/file with base64 format"))
    ELSE Ok(user.client_certificate)

\* AuthInfo::load_client_key
load_client_key(user) ==
    IF user.client_key = NoData
    THEN Err(KubeConfig("Failed to get data/file with base64 format"))
    ELSE Ok(user.client_key)

\* Cluster::load_certificate_authority: fails when no CA is configured and when
\* the configured data or file cannot be decoded or read
load_certificate_authority(cluster) ==
    IF cluster.certificate_authority.st = "data"
    THEN Ok(cluster.certificate_authority.pem)
    ELSE Err(KubeConfig("Failed to get data/file with base64 format"))

\* X509::from_pem / PKey::private_key_from_pem / Identity::from_pem on one block
from_pem(bytes) == IF bytes = "junk" THEN Err(SslError) ELSE Ok([parsed |-> bytes])

\* X509::stack_from_pem and rustls pemfile::certs: every block of the bundle, in
\* order, or an error when a block does not decode
stack_from_pem(pem) ==
    IF \E i \in 1..Len(pem) : pem[i] = "badpem" THEN Err(SslError)
    ELSE Ok([i \in 1..Len(pem) |-> [parsed |-> pem[i]]])

\* X509::to_der: the DER encoding of a parsed certificate
to_der(x509) ==
    IF x509.parsed = "badder" THEN Err(SslError) ELSE Ok(<<"der", x509.parsed>>)

\* Codec::get_encoding of a rustls Certificate: its DER bytes behind a u24 length
get_encoding(cert) == <<"u24-length", "der", cert.parsed>>

\* reqwest::Certificate::from_der
from_der(der) ==
    IF der[Len(der)] = "badder" THEN Err(SslError) ELSE Ok([der |-> der])

\* lines 68-81: identity, default build (PKCS#12 with the placeholder password)
identity_openssl(self) ==
    LET client_cert == load_client_certificate(self.user) IN
    IF ~client_cert.ok THEN Err(client_cert.err) ELSE
    LET client_key == load_client_key(self.user) IN
    IF ~client_key.ok THEN Err(client_key.err) ELSE
    LET x509 == from_pem(client_cert.val) IN
    IF ~x509.ok THEN Err(SslError) ELSE
    LET pkey == from_pem(client_key.val) IN
    IF ~pkey.ok THEN Err(SslError) ELSE
    Ok([format |-> "pkcs12", password |-> " ", name |-> "kubeconfig",
        blob |-> <<pkey.val.parsed, x509.val.parsed>>])

\* lines 83-92: identity, rustls-tls build (key bytes, then certificate bytes)
identity_rustls(self) ==
    LET client_cert == load_client_certificate(self.user) IN
    IF ~client_cert.ok THEN Err(client_cert.err) ELSE
    LET client_key == load_client_key(self.user) IN
    IF ~client_key.ok THEN Err(client_key.err) ELSE
    LET buffer == <<client_key.val, client_cert.val>> IN
    IF \E i \in 1..2 : ~from_pem(buffer[i]).ok THEN Err(SslError) ELSE
    Ok([format |-> "pem", password |-> "", name |-> "", blob |-> buffer])

\* identity, mutated: the key is moved out of the loader by the first call
identity_take(f, self) ==
    [res |-> IF f = "openssl" THEN identity_openssl(self) ELSE identity_rustls(self),
     self |-> [self EXCEPT !.user.client_key = NoData]]

\* identity(&self): the outcome, and the receiver as the call leaves it
identity(f, self) ==
    [res |-> IF f = "openssl" THEN identity_openssl(self) ELSE identity_rustls(self),
     self |-> self]

RECURSIVE push_all_openssl(_, _)
\* lines 100-107: the loop over the parsed bundle; `?` on an Option leaves with None
push_all_openssl(bundle, certs) ==
    IF bundle = <<>> THEN Some(Ok(certs)) ELSE
    LET der == to_der(Head(bundle)) IN
    IF ~der.ok THEN None ELSE
    LET cert == from_der(der.val) IN
    IF ~cert.ok THEN None ELSE
    push_all_openssl(Tail(bundle), Append(certs, cert.val))

RECURSIVE push_all_rustls(_, _)
\* lines 117-123
push_all_rustls(bundle, certs) ==
    IF bundle = <<>> THEN Some(Ok(certs)) ELSE
    LET cert == from_der(get_encoding(Head(bundle))) IN
    IF ~cert.ok THEN None ELSE
    push_all_rustls(Tail(bundle), Append(certs, cert.val))

\* lines 94-108: ca_bundle, default build
ca_bundle_openssl(self) ==
    LET loaded == load_certificate_authority(self.cluster) IN
    IF ~loaded.ok THEN None ELSE
    LET bundle == stack_from_pem(loaded.val) IN
    IF ~bundle.ok THEN None ELSE
    push_all_openssl(bundle.val, <<>>)

\* lines 110-124: ca_bundle, rustls-tls build
ca_bundle_rustls(self) ==
    LET loaded == load_certificate_authority(self.cluster) IN
    IF ~loaded.ok THEN None ELSE
    LET bundle == stack_from_pem(loaded.val) IN
    IF ~bundle.ok THEN None ELSE
    push_all_rustls(bundle.val, <<>>)

\* ca_bundle(&self): the outcome, and the receiver as the call leaves it
ca_bundle(f, self) ==
    [res |-> IF f = "openssl" THEN ca_bundle_openssl(self) ELSE ca_bundle_rustls(self),
     self |-> self]

\* the certificate-authority fields a Cluster can hold
CertificateAuthorities ==
    {NoCa, [st |-> "unloadable", pem |-> <<>>]} \cup
    UNION {{[st |-> "data", pem |-> p] : p \in [1..k -> PemBlocks]} : k \in 0..MaxCerts}

\* the loaders load can return, as far as the TLS builders read them
TlsLoaders ==
    [current_context : {[cluster |-> "dev", user |-> "dev"]},
     cluster : [server : {1}, certificate_authority : CertificateAuthorities],
     user : [client_certificate : {NoData, "junk", "crt1"},
             client_key : {NoData, "junk", "key1"},
             auth_provider : {FALSE}]]

InitTls ==
    /\ loader \in TlsLoaders
    /\ feature \in Features
    /\ config = Unreadable
    /\ args = NoArgs
    /\ pc = "returned"
    /\ result = Ok(loader)
    /\ calls = <<>>
    /\ identity_out = <<>>
    /\ ca_out = <<>>

\* a call of loader.identity()
Identity ==
    /\ Len(identity_out) < MaxCalls
    /\ LET r == identity(feature, loader) IN
        /\ identity_out' = Append(identity_out, r.res)
        /\ loader' = r.self
    /\ UNCHANGED <<config, args, pc, result, calls, feature, ca_out>>

\* a call of loader.ca_bundle()
CaBundle ==
    /\ Len(ca_out) < MaxCalls
    /\ LET r == ca_bundle(feature, loader) IN
        /\ ca_out' = Append(ca_out, r.res)
        /\ loader' = r.self
    /\ UNCHANGED <<config, args, pc, result, calls, feature, identity_out>>

NextTls == Identity \/ CaBundle

SpecTls == InitTls /\ [][NextTls]_vars

(***************************************************************************)
(* Vocabulary of the properties of load.                                   *)
(***************************************************************************)
ContextNotFound == Err(KubeConfig("Unable to load current context"))
ClusterNotFound == Err(KubeConfig("Unable to load cluster of context"))
UserNotFound == Err(KubeConfig("Unable to load user of context"))

Has(coll, name) == \E i \in 1..Len(coll) : coll[i].name = name

HasIgnoringCase(coll, name) == \E i \in 1..Len(coll) : Lower(coll[i].name) = Lower(name)

IsFirst(coll, i, name) ==
    /\ i \in 1..Len(coll)
    /\ coll[i].name = name
    /\ \A j \in 1..(i - 1) : coll[j].name # name

First(coll, name) == coll[CHOOSE i \in 1..Len(coll) : IsFirst(coll, i, name)]

\* load has returned and the configuration is still the one it read
Returned == pc = "returned" /\ config.valid

\* the names the three lookups of the returned call looked for
ContextName == IF args.context.some THEN args.context.val ELSE config.current_context
ContextFound == Has(config.contexts, ContextName)
ChosenContext == First(config.contexts, ContextName).context
ClusterName == IF args.cluster.some THEN args.cluster.val ELSE ChosenContext.cluster
ClusterFound == ContextFound /\ Has(config.clusters, ClusterName)
UserName == IF args.user.some THEN args.user.val ELSE ChosenContext.user
UserFound == ClusterFound /\ Has(config.auth_infos, UserName)
MatchedUser == First(config.auth_infos, UserName).auth_info

\* an AuthInfo as a successful materialization leaves it
Materialized(u) ==
    IF u.auth_provider
    THEN [u EXCEPT !.client_certificate = "gcp-crt", !.client_key = "gcp-key"]
    ELSE u

MaterializationFails == MatchedUser.auth_provider /\ args.gcp = "fail"

(***************************************************************************)
(* C1: overrides take precedence. Whenever load succeeds, the resolved      *)
(* context is a record named by the context override if there is one, else  *)
(* by config.current_context; the resolved cluster is a record named by the *)
(* cluster override if there is one, else by the resolved context's cluster *)
(* reference; the resolved user is a (materialized) record named by the     *)
(* user override if there is one, else by the context's user reference.     *)
(***************************************************************************)
Thm_C1_OverridesTakePrecedence ==
    Returned /\ result.ok =>
        LET l == result.val
            cn == IF args.context.some THEN args.context.val ELSE config.current_context
            kn == IF args.cluster.some THEN args.cluster.val ELSE l.current_context.cluster
            un == IF args.user.some THEN args.user.val ELSE l.current_context.user
        IN  /\ \E i \in 1..Len(config.contexts) :
                /\ config.contexts[i].name = cn
                /\ config.contexts[i].context = l.current_context
            /\ \E i \in 1..Len(config.clusters) :
                /\ config.clusters[i].name = kn
                /\ config.clusters[i].cluster = l.cluster
            /\ \E i \in 1..Len(config.auth_infos) :
                /\ config.auth_infos[i].name = un
                /\ Materialized(config.auth_infos[i].auth_info) = l.user

\* load succeeded with a context override that differs from the default, and a
\* cluster override and a user override that both differ from what the chosen
\* context references, the referenced cluster being there too
Wit_C1_OverridesDiffer ==
    /\ Returned /\ result.ok
    /\ args.context.some /\ args.context.val # config.current_context
    /\ args.cluster.some /\ args.cluster.val # result.val.current_context.cluster
    /\ args.user.some /\ args.user.val # result.val.current_context.user
    /\ Has(config.clusters, result.val.current_context.cluster)

(***************************************************************************)
(* C2, as claimed: an override naming an entity absent from its collection  *)
(* makes load fail with the not-found error of that very collection,        *)
(* whatever the other two overrides and whether or not the context exists.  *)
(***************************************************************************)
Orig_C2_ErrorNamesOverriddenCollection ==
    Returned =>
        /\ (args.context.some /\ ~Has(config.contexts, args.context.val)
                => result = ContextNotFound)
        /\ (args.cluster.some /\ ~Has(config.clusters, args.cluster.val)
                => result = ClusterNotFound)
        /\ (args.user.some /\ ~Has(config.auth_infos, args.user.val)
                => result = UserNotFound)

(***************************************************************************)
(* C2, amended: an override naming an entity absent from its collection     *)
(* makes load fail with a not-found error, and the error names the first    *)
(* collection, in the order context, cluster, user, whose lookup fails: the *)
(* overridden collection itself when the lookups before it succeed.         *)
(***************************************************************************)
Thm_C2_ErrorNamesFirstFailingLookup ==
    Returned =>
        /\ (args.context.some /\ ~Has(config.contexts, args.context.val)
                => result = ContextNotFound)
        /\ (args.cluster.some /\ ~Has(config.clusters, args.cluster.val)
                => result = IF ContextFound THEN ClusterNotFound ELSE ContextNotFound)
        /\ (args.user.some /\ ~Has(config.auth_infos, args.user.val)
                => result = IF ~ContextFound THEN ContextNotFound
                            ELSE IF ~ClusterFound THEN ClusterNotFound
                            ELSE UserNotFound)

\* a cluster override names an absent cluster, the context resolves, and load
\* failed with the cluster's error although the user override is absent too
Wit_C2_AbsentClusterOverride ==
    /\ Returned
    /\ ContextFound
    /\ args.cluster.some /\ ~Has(config.clusters, args.cluster.val)
    /\ args.user.some /\ ~Has(config.auth_infos, args.user.val)
    /\ config.clusters # <<>>
    /\ result = ClusterNotFound

(***************************************************************************)
(* C4, as claimed: whenever the context, cluster and user names of a call   *)
(* are all present in their collections, load returns a loader whose fields *)
(* equal the referenced records (the user as materialized).                 *)
(***************************************************************************)
Orig_C4_PresentNamesYieldLoader ==
    Returned /\ UserFound =>
        /\ result.ok
        /\ result.val.current_context = ChosenContext
        /\ result.val.cluster = First(config.clusters, ClusterName).cluster
        /\ result.val.user = Materialized(MatchedUser)

(***************************************************************************)
(* C4, amended: whenever the context, cluster and user names of a call are  *)
(* all present in their collections and credential materialization          *)
(* succeeds, load returns a loader whose current_context, cluster and user  *)
(* equal the referenced records (the user as materialized); load leaves the *)
(* Configuration unchanged, and a later change of the Configuration changes *)
(* neither the returned loader nor load's result.                           *)
(***************************************************************************)
LoadStep_C4 ==
    pc = "idle" /\ pc' = "returned" =>
        /\ config' = config
        /\ (Returned /\ UserFound /\ ~MaterializationFails)' =>
            /\ result'.ok
            /\ loader' = result'.val
            /\ loader'.current_context = ChosenContext'
            /\ loader'.cluster = First(config.clusters, ClusterName').cluster
            /\ loader'.user = Materialized(MatchedUser')

RewriteStep_C4 ==
    pc = "returned" /\ config' # config => loader' = loader /\ result' = result

Thm_C4_IndependentCopies == [][LoadStep_C4 /\ RewriteStep_C4]_vars

\* a loader holding a materialized auth-provider user, whose AuthInfo has
\* since been removed from the configuration
Wit_C4_LoaderOutlivesRecords ==
    /\ pc = "rewritten"
    /\ result.ok /\ loader = result.val
    /\ loader.user.auth_provider /\ loader.user.client_key = "gcp-key"
    /\ config.auth_infos = <<>>
    /\ config.contexts # <<>> /\ config.clusters # <<>>

(***************************************************************************)
(* C6: when load_gcp fails on the matched AuthInfo, load returns that       *)
(* failure: not a loader, not the user-not-found error, and the caller is   *)
(* left without a loader (so with no partially loaded user).                *)
(***************************************************************************)
Thm_C6_MaterializationFailureSurfaces ==
    Returned /\ UserFound /\ ~load_gcp(MatchedUser, args.gcp).res.ok =>
        /\ result = Err(load_gcp(MatchedUser, args.gcp).res.err)
        /\ result # UserNotFound
        /\ loader = NoLoader

\* the three lookups succeeded on an auth-provider user whose fetch failed
Wit_C6_FetchFailed ==
    /\ Returned /\ UserFound
    /\ MatchedUser.auth_provider /\ args.gcp = "fail"
    /\ "load_gcp" \in {calls[i] : i \in 1..Len(calls)}
    /\ ~result.ok

(***************************************************************************)
(* C7, as claimed: whenever load succeeds, the resolved context's cluster   *)
(* name is present in config.clusters and its user name is present in       *)
(* config.auth_infos, for every combination of overrides.                   *)
(***************************************************************************)
Orig_C7_ContextReferencesExist ==
    Returned /\ result.ok =>
        /\ Has(config.clusters, result.val.current_context.cluster)
        /\ Has(config.auth_infos, result.val.current_context.user)

(***************************************************************************)
(* C7, amended: whenever load succeeds, the resolved context's cluster name *)
(* is present in config.clusters unless a cluster override was given, and   *)
(* its user name is present in config.auth_infos unless a user override was *)
(* given (an override replaces the reference, which is then never looked    *)
(* up).                                                                     *)
(***************************************************************************)
Thm_C7_UnoverriddenReferencesExist ==
    Returned /\ result.ok =>
        /\ (~args.cluster.some => Has(config.clusters, result.val.current_context.cluster))
        /\ (~args.user.some => Has(config.auth_infos, result.val.current_context.user))

\* load succeeded without cluster and user overrides, in a configuration
\* that also holds a cluster the context does not reference
Wit_C7_ReferencesFollowed ==
    /\ Returned /\ result.ok
    /\ ~args.cluster.some /\ ~args.user.some
    /\ \E i \in 1..Len(config.clusters) :
        config.clusters[i].name # result.val.current_context.cluster

(***************************************************************************)
(* C8: each lookup is a linear scan with exact, case-sensitive matching in  *)
(* which the first match wins: on success each resolved record is the       *)
(* earliest one of its collection with the target name, and a collection    *)
(* holding the target name only in another case makes the lookup fail.      *)
(***************************************************************************)
Thm_C8_FirstExactMatchWins ==
    Returned =>
        /\ result.ok =>
            /\ \E i \in 1..Len(config.contexts) :
                /\ IsFirst(config.contexts, i, ContextName)
                /\ result.val.current_context = config.contexts[i].context
            /\ \E i \in 1..Len(config.clusters) :
                /\ IsFirst(config.clusters, i, ClusterName)
                /\ result.val.cluster = config.clusters[i].cluster
            /\ \E i \in 1..Len(config.auth_infos) :
                /\ IsFirst(config.auth_infos, i, UserName)
                /\ result.val.user = Materialized(config.auth_infos[i].auth_info)
        /\ (HasIgnoringCase(config.contexts, ContextName) /\ ~ContextFound
                => result = ContextNotFound)
        /\ (ContextFound /\ HasIgnoringCase(config.clusters, ClusterName) /\ ~ClusterFound
                => result = ClusterNotFound)
        /\ (ClusterFound /\ HasIgnoringCase(config.auth_infos, UserName) /\ ~UserFound
                => result = UserNotFound)

\* load succeeded on a configuration with two clusters of the target name
Wit_C8_DuplicateNames ==
    /\ Returned /\ result.ok
    /\ Len(config.clusters) = 2
    /\ config.clusters[1].name = ClusterName
    /\ config.clusters[2].name = ClusterName
    /\ config.clusters[1].cluster # config.clusters[2].cluster

(***************************************************************************)
(* C10: within one call of load the materializer load_gcp is invoked at     *)
(* most once, and only after the context, cluster and user lookups, made in *)
(* that order, have all succeeded; when load fails with a context, cluster  *)
(* or user not-found error the materializer has not been invoked.           *)
(***************************************************************************)
Thm_C10_MaterializerLastAndOnce ==
    pc # "idle" =>
        /\ Cardinality({i \in 1..Len(calls) : calls[i] = "load_gcp"}) <= 1
        /\ \A i \in 1..Len(calls) : calls[i] = "load_gcp" =>
            /\ SubSeq(calls, 1, i - 1) =
                    <<"load_config", "find_context", "find_cluster", "find_user">>
            /\ pc = "returned" => UserFound
        /\ (result \in {ContextNotFound, ClusterNotFound, UserNotFound}
                => \A i \in 1..Len(calls) : calls[i] # "load_gcp")

\* a call that reached the materializer, which fetched the credentials
Wit_C10_MaterializerReached ==
    /\ Returned
    /\ Len(calls) = 5 /\ calls[5] = "load_gcp"
    /\ result.ok /\ result.val.user.client_certificate = "gcp-crt"

(***************************************************************************)
(* Vocabulary of the properties of the TLS builders.                       *)
(***************************************************************************)
Ca == loader.cluster.certificate_authority

\* CA data is configured but cannot be loaded, parsed or re-encoded
CaMalformed ==
    \/ Ca.st = "unloadable"
    \/ Ca.st = "data" /\ \E j \in 1..Len(Ca.pem) : Ca.pem[j] \in {"badpem", "badder"}

\* the trusted certificates of a well-formed bundle: the DER of each block, in order
DerOfBundle == [j \in 1..Len(Ca.pem) |-> [der |-> <<"der", Ca.pem[j]>>]]

(***************************************************************************)
(* C3, as claimed: ca_bundle returns None if and only if the cluster has no *)
(* certificate-authority data configured, and Some(Err(SslError)) when CA   *)
(* data is present but cannot be loaded, parsed or re-encoded.              *)
(***************************************************************************)
Orig_C3_NoneOnlyWithoutCa ==
    \A i \in 1..Len(ca_out) :
        /\ (ca_out[i] = None) <=> (Ca.st = "absent")
        /\ CaMalformed => ca_out[i] = Some(Err(SslError))

(***************************************************************************)
(* C5, as claimed: on a bundle of n well-formed certificates ca_bundle      *)
(* returns exactly the n DER re-encodings in input order; when any entry    *)
(* fails to parse or re-encode the whole operation fails with an error, and *)
(* no list is returned.                                                     *)
(***************************************************************************)
Orig_C5_AllOrError ==
    \A i \in 1..Len(ca_out) : Ca.st = "data" =>
        IF CaMalformed THEN ca_out[i] = Some(Err(SslError))
        ELSE ca_out[i] = Some(Ok(DerOfBundle))

====
